---- MODULE Spec2Model ----
(***************************************************************************)
(* Remote-Buzzer-Activation: an ESP-NOW transmitter (button) and receiver  *)
(* (buzzer).  The receiver is modelled as two execution contexts that      *)
(* share buzzer_timer, buzzer_active, the output pin and masters: the      *)
(* radio task running the receive callbacks (onReceive,                    *)
(* register_new_master) and the Arduino task running loop().  Every access *)
(* to a shared variable is one step, so every interleaving of the          *)
(* callback's writes with loop()'s reads and writes is explored.           *)
(*                                                                         *)
(* The transmitter is a single task (loop() with a blocking delay) and an  *)
(* environment that moves the button level.                                *)
(***************************************************************************)
EXTENDS Integers, Naturals, Sequences, FiniteSets, TLC

(* ------------------------------ bounds -------------------------------- *)

\* Width of the millisecond counter returned by millis().  The board's
\* unsigned long has 32 bits; the model keeps the modular arithmetic and a
\* narrower counter (BUZZER_DURATION < 2^(ClockBits-1)).
ClockBits == 12

\* The model follows the receiver for MaxTime ms from its first state.
MaxTime == 2040

\* Milliseconds that pass outside delay() (between two statements of loop(),
\* or while a callback runs), in total over a behaviour.
MaxDrift == 1

\* Frames delivered to the receiver in one behaviour.
MaxFrames == 2

\* Width of msg_count (uint32_t in the program).
CountBits == 3

\* Presses followed after msg_count has wrapped.
MaxExtra == 2

\* Raw falling edges of the button counted inside one debounce window.
MaxRawEdges == 2

\* Granularity of time on the transmitter, ms.
TxStep == 10

(* ------------------------- program constants -------------------------- *)

BUZZER_DURATION == 1000
LOOP_DELAY == 10

LOW == 0
HIGH == 1

BROADCAST_ADDR == "FF:FF:FF:FF:FF:FF"
OWN_ADDR == "receiver"

\* Source addresses of the frames, and the destinations a frame can carry.
Addrs == {"X", "Y"}
DestAddrs == {BROADCAST_ADDR, OWN_ADDR}

\* Payloads of the frames: the transmitter's text, and bytes it never sends.
Payloads == {"Button Pressed! #1", ""}

ClockMod == 2 ^ ClockBits

\* delay(250) of the transmitter.
DEBOUNCE_MS == 250

CountMod == 2 ^ CountBits

\* Presses the transmitter's loop() detects in one behaviour: enough for
\* msg_count to wrap, and MaxExtra more.
MaxPresses == CountMod + MaxExtra

\* Values millis() has in the first state: just booted, and shortly before
\* the counter wraps.
StartClocks == {0, ClockMod - 700}

\* Times (ms after the first state) at which the radio delivers a frame.
FrameTimes == {0, 500, 501, 1010}

VARIABLES
  now,            \* what millis() returns
  uptime,         \* ms since the first state, not wrapped
  drift,          \* ms that passed outside delay()
  pin,            \* level of BUZZER_PIN
  buzzer_timer,
  buzzer_active,
  masters,        \* sequence of registered source addresses
  lpc,            \* position of loop()
  lorder,         \* which operand of millis() - buzzer_timer was read first
  lsnap,          \* the operand read first
  cpc,            \* position of the receive callback
  framesLeft,     \* frames the radio will still deliver
  startedAt,      \* uptime of the latest buzzer_timer = millis(), -1 if none
  prevStartedAt,  \* uptime of the one before it, -1 if none
  lastFrame       \* the latest frame delivered and how it was handled; frames and failed registrations so far

rxvars == <<now, uptime, drift, pin, buzzer_timer, buzzer_active, masters,
            lpc, lorder, lsnap, cpc, framesLeft, startedAt, prevStartedAt, lastFrame>>

\* Transmitter.
VARIABLES
  button,              \* level of BUTTON_PIN (INPUT_PULLUP: LOW when pressed)
  lastButtonState,
  currentButtonState,
  msg_count,
  data,                \* the buffer snprintf fills
  tpc,                 \* position of the transmitter's loop()
  held,                \* ms spent in the running delay(250)
  sent,                \* send attempts: how many, and the payload and result of the latest
  edges,               \* HIGH->LOW transitions loop() has detected
  sinceDetect,         \* ms since the latest detected transition, saturating at DEBOUNCE_MS
  gapAtDetect,         \* sinceDetect when the latest transition was detected
  rawEdges             \* raw HIGH->LOW edges of the pin, the latest detected one included (saturating)

txvars == <<button, lastButtonState, currentButtonState, msg_count, data, tpc,
            held, sent, edges, sinceDetect, gapAtDetect, rawEdges>>

vars == <<rxvars, txvars>>

(* ------------------------------ helpers ------------------------------- *)

\* Unsigned subtraction of two counter values.
USub(a, b) == (a - b + ClockMod) % ClockMod

UAdd(a, d) == (a + d) % ClockMod

RECURSIVE SeqToSet(_)
SeqToSet(s) == IF s = <<>> THEN {} ELSE {Head(s)} \cup SeqToSet(Tail(s))

\* A dispatch that finds no peer for any address.
KnownPeer_Never(src) == FALSE

\* The radio library hands a frame to the peer object registered for its
\* source address, and to the new-peer callback when there is none.
KnownPeer(src) == src \in SeqToSet(masters)

\* The subtraction with its operands exchanged.
Expired_Swapped(m, t) == USub(t, m) > BUZZER_DURATION

\* A timeout that fires one poll late.
Expired_Late(m, t) == USub(m, t) > BUZZER_DURATION + LOOP_DELAY

\* The condition of loop()'s if, once both operands are read.
Expired(m, t) == USub(m, t) > BUZZER_DURATION

\* A test for the opposite of a broadcast destination.
IsBroadcast_Negated(des) == des # BROADCAST_ADDR

\* A test that takes every destination for the broadcast address.
IsBroadcast_Always(des) == TRUE

\* memcmp(info->des_addr, ESP_NOW.BROADCAST_ADDR, 6) == 0
IsBroadcast(des) == des = BROADCAST_ADDR

\* An onReceive that acts on broadcast frames only.
Triggers_BroadcastOnly(payload, broadcast) == broadcast

\* onReceive(data, len, broadcast) uses its arguments for the printout only
\* and goes on to the buzzer whatever they are.
Triggers(payload, broadcast) == TRUE

\* A register_new_master that ignores the result of add_peer().
RegistrationProceeds_Always(ok) == TRUE

\* The branch register_new_master takes after add_peer().
RegistrationProceeds(ok) == ok

(* The transmitter's expressions. *)

Min(a, b) == IF a < b THEN a ELSE b

\* A level test in place of the edge test.
FallingEdge_Level(last, cur) == cur = LOW

\* lastButtonState == HIGH && currentButtonState == LOW
FallingEdge(last, cur) == last = HIGH /\ cur = LOW

\* ++msg_count on a uint32_t
Increment(n) == (n + 1) % CountMod

\* The payload of a post-increment, msg_count++.
Encode_PostIncrement(n) == [text |-> "Button Pressed! #", seq |-> (n + CountMod - 1) % CountMod]

\* snprintf(data, sizeof(data), "Button Pressed! #%lu", n)
Encode(n) == [text |-> "Button Pressed! #", seq |-> n]

NoData == [text |-> "", seq |-> 0]

\* A loop() that leaves the pressed branch when the send fails.
AfterSend_SkipHold(ok) == IF ok THEN "hold" ELSE "save"

\* Where loop() goes after send_message: the result is only printed.
AfterSend(ok) == "hold"

\* A delay of 25 ms.
DelayOver_Short(h) == h >= 25

\* delay(250) has run for h ms
DelayOver(h) == h >= DEBOUNCE_MS

NoFrame == [n |-> 0, fails |-> 0, src |-> "none", des |-> "none", via |-> "none", ok |-> FALSE, at |-> -1]

TxInit ==
  /\ button = HIGH
  /\ lastButtonState = HIGH
  /\ currentButtonState = HIGH
  /\ msg_count = 0
  /\ data = NoData
  /\ tpc = "read"
  /\ held = 0
  /\ sent = [n |-> 0, payload |-> NoData, ok |-> FALSE]
  /\ edges = 0
  /\ sinceDetect = DEBOUNCE_MS
  /\ gapAtDetect = DEBOUNCE_MS
  /\ rawEdges = 0

Init ==
  /\ TxInit
  /\ now \in StartClocks
  /\ uptime = 0
  /\ drift = 0
  /\ pin = LOW
  /\ buzzer_timer = 0
  /\ buzzer_active = FALSE
  /\ masters = <<>>
  /\ lpc = "check"
  /\ lorder = "none"
  /\ lsnap = 0
  /\ cpc = "idle"
  /\ framesLeft \in 0..MaxFrames
  /\ startedAt = -1
  /\ prevStartedAt = -1
  /\ lastFrame = NoFrame

(* --------------------------- receive callbacks ------------------------- *)

FrameMayArrive ==
  /\ cpc = "idle"
  /\ framesLeft > 0
  /\ uptime \in FrameTimes

\* ESP_NOW_Peer_Class::onReceive is entered for a frame from a registered
\* peer, broadcast or not.
OnReceive(src, des, payload) ==
  /\ FrameMayArrive
  /\ KnownPeer(src)
  /\ framesLeft' = framesLeft - 1
  /\ cpc' = IF Triggers(payload, IsBroadcast(des)) THEN "high" ELSE "idle"
  /\ lastFrame' = [n |-> lastFrame.n + 1, fails |-> lastFrame.fails, src |-> src, des |-> des,
                   via |-> "onReceive", ok |-> TRUE, at |-> uptime]
  /\ UNCHANGED <<txvars, now, uptime, drift, pin, buzzer_timer, buzzer_active, masters,
                 lpc, lorder, lsnap, startedAt, prevStartedAt>>

\* register_new_master is entered for a frame from an address with no peer.
RegisterNewMaster(src, des, ok) ==
  /\ FrameMayArrive
  /\ ~KnownPeer(src)
  /\ framesLeft' = framesLeft - 1
  /\ lastFrame' = [n |-> lastFrame.n + 1,
                   fails |-> IF IsBroadcast(des) /\ ~ok THEN lastFrame.fails + 1 ELSE lastFrame.fails,
                   src |-> src, des |-> des, via |-> "register_new_master", ok |-> ok, at |-> uptime]
  /\ IF IsBroadcast(des)
       THEN IF RegistrationProceeds(ok)
              THEN /\ masters' = Append(masters, src)
                   /\ cpc' = "high"
              ELSE /\ UNCHANGED masters
                   /\ cpc' = "idle"
       ELSE /\ UNCHANGED masters
            /\ cpc' = "idle"
  /\ UNCHANGED <<txvars, now, uptime, drift, pin, buzzer_timer, buzzer_active,
                 lpc, lorder, lsnap, startedAt, prevStartedAt>>

\* digitalWrite(BUZZER_PIN, HIGH)
CbHigh ==
  /\ cpc = "high"
  /\ pin' = HIGH
  /\ cpc' = "timer"
  /\ UNCHANGED <<txvars, now, uptime, drift, buzzer_timer, buzzer_active, masters,
                 lpc, lorder, lsnap, framesLeft, startedAt, prevStartedAt, lastFrame>>

\* buzzer_timer = millis()
CbTimer ==
  /\ cpc = "timer"
  /\ buzzer_timer' = now
  /\ startedAt' = uptime
  /\ prevStartedAt' = startedAt
  /\ cpc' = "active"
  /\ UNCHANGED <<txvars, now, uptime, drift, pin, buzzer_active, masters,
                 lpc, lorder, lsnap, framesLeft, lastFrame>>

\* buzzer_active = true
CbActive ==
  /\ cpc = "active"
  /\ buzzer_active' = TRUE
  /\ cpc' = "idle"
  /\ UNCHANGED <<txvars, now, uptime, drift, pin, buzzer_timer, masters,
                 lpc, lorder, lsnap, framesLeft, startedAt, prevStartedAt, lastFrame>>

(* ------------------------------- loop() ------------------------------- *)

\* if (buzzer_active && ...): the left operand, with short circuit.
LoopCheck ==
  /\ lpc = "check"
  /\ lpc' = IF buzzer_active THEN "first" ELSE "delay"
  /\ UNCHANGED <<txvars, now, uptime, drift, pin, buzzer_timer, buzzer_active, masters,
                 lorder, lsnap, cpc, framesLeft, startedAt, prevStartedAt, lastFrame>>

\* millis() - buzzer_timer: the operands are evaluated in either order.
LoopReadFirst ==
  /\ lpc = "first"
  /\ \/ lorder' = "millis" /\ lsnap' = now
     \/ lorder' = "timer" /\ lsnap' = buzzer_timer
  /\ lpc' = "second"
  /\ UNCHANGED <<txvars, now, uptime, drift, pin, buzzer_timer, buzzer_active, masters,
                 cpc, framesLeft, startedAt, prevStartedAt, lastFrame>>

LoopReadSecond ==
  /\ lpc = "second"
  /\ LET m == IF lorder = "millis" THEN lsnap ELSE now
         t == IF lorder = "millis" THEN buzzer_timer ELSE lsnap
     IN  lpc' = IF Expired(m, t) THEN "low" ELSE "delay"
  /\ lorder' = "none"
  /\ lsnap' = 0
  /\ UNCHANGED <<txvars, now, uptime, drift, pin, buzzer_timer, buzzer_active, masters,
                 cpc, framesLeft, startedAt, prevStartedAt, lastFrame>>

\* digitalWrite(BUZZER_PIN, LOW)
LoopLow ==
  /\ lpc = "low"
  /\ pin' = LOW
  /\ lpc' = "clear"
  /\ UNCHANGED <<txvars, now, uptime, drift, buzzer_timer, buzzer_active, masters,
                 lorder, lsnap, cpc, framesLeft, startedAt, prevStartedAt, lastFrame>>

\* buzzer_active = false
LoopClear ==
  /\ lpc = "clear"
  /\ buzzer_active' = FALSE
  /\ lpc' = "delay"
  /\ UNCHANGED <<txvars, now, uptime, drift, pin, buzzer_timer, masters,
                 lorder, lsnap, cpc, framesLeft, startedAt, prevStartedAt, lastFrame>>

\* delay(10): the callback, which runs in the radio task, does not stay
\* part-way through its three writes across a delay of loop().
LoopDelay ==
  /\ lpc = "delay"
  /\ cpc = "idle"
  /\ uptime + LOOP_DELAY <= MaxTime
  /\ now' = UAdd(now, LOOP_DELAY)
  /\ uptime' = uptime + LOOP_DELAY
  /\ lpc' = "check"
  /\ UNCHANGED <<txvars, drift, pin, buzzer_timer, buzzer_active, masters,
                 lorder, lsnap, cpc, framesLeft, startedAt, prevStartedAt, lastFrame>>

\* One millisecond passes between two steps.
Tick ==
  /\ drift < MaxDrift
  /\ uptime < MaxTime
  /\ now' = UAdd(now, 1)
  /\ uptime' = uptime + 1
  /\ drift' = drift + 1
  /\ UNCHANGED <<txvars, pin, buzzer_timer, buzzer_active, masters,
                 lpc, lorder, lsnap, cpc, framesLeft, startedAt, prevStartedAt, lastFrame>>

Callback == CbHigh \/ CbTimer \/ CbActive
Loop == LoopCheck \/ LoopReadFirst \/ LoopReadSecond \/ LoopLow \/ LoopClear \/ LoopDelay

Next ==
  \/ \E src \in Addrs, des \in DestAddrs, payload \in Payloads : OnReceive(src, des, payload)
  \/ \E src \in Addrs, des \in DestAddrs, ok \in BOOLEAN : RegisterNewMaster(src, des, ok)
  \/ CbHigh
  \/ CbTimer
  \/ CbActive
  \/ LoopCheck
  \/ LoopReadFirst
  \/ LoopReadSecond
  \/ LoopLow
  \/ LoopClear
  \/ LoopDelay
  \/ Tick

Spec == Init /\ [][Next]_vars

\* loop() is called again and again by the Arduino core, and a receive
\* callback that has been entered runs to its end.
Fairness == WF_vars(Loop) /\ WF_vars(Callback)

\* The end-to-end scenario: the registry is empty and exactly one frame is
\* delivered, so no frame ever finds a registered peer.
E2EInit == Init /\ framesLeft = 1

E2ENext ==
  \/ \E src \in Addrs, des \in DestAddrs, ok \in BOOLEAN : RegisterNewMaster(src, des, ok)
  \/ CbHigh
  \/ CbTimer
  \/ CbActive
  \/ LoopCheck
  \/ LoopReadFirst
  \/ LoopReadSecond
  \/ LoopLow
  \/ LoopClear
  \/ LoopDelay
  \/ Tick

E2ESpec == E2EInit /\ [][E2ENext]_vars /\ Fairness

(* ------------------------ receiver: properties ------------------------ *)

\* ms since the latest start, or -1 when there was none
SinceStart == IF startedAt < 0 THEN -1 ELSE uptime - startedAt

\* The first frame came from an unknown address as a broadcast, its
\* registration succeeded, register_new_master has returned, and no other
\* frame follows.
OnlyFrameRegistered ==
  /\ lastFrame.n = 1
  /\ lastFrame.via = "register_new_master"
  /\ IsBroadcast(lastFrame.des)
  /\ lastFrame.ok
  /\ cpc = "idle"
  /\ framesLeft = 0

\* register_new_master returns from handling the first frame
FirstRegistrationReturns ==
  /\ lastFrame.n = 1
  /\ lastFrame.via = "register_new_master"
  /\ cpc = "active"
  /\ cpc' = "idle"

\* C1: starting from an empty registry with the output LOW, one broadcast
\* frame from an unknown address X whose registration succeeds leaves
\* (i) the registry holding exactly the one peer X, (ii) the output HIGH
\* and buzzer_active true when register_new_master returns, and (iii) with
\* no further frame, the output is not driven LOW before BUZZER_DURATION ms
\* have passed and a later poll of loop() drives it LOW and clears
\* buzzer_active.
C1_EndToEnd ==
  /\ [][FirstRegistrationReturns =>
          /\ masters' = <<lastFrame.src>>
          /\ pin' = HIGH
          /\ buzzer_active']_vars
  /\ [](OnlyFrameRegistered =>
          /\ masters = <<lastFrame.src>>
          /\ (pin = LOW => SinceStart >= BUZZER_DURATION)
          /\ (~buzzer_active => SinceStart >= BUZZER_DURATION))
  /\ (OnlyFrameRegistered ~> (pin = LOW /\ ~buzzer_active))

C1_Witness ==
  /\ OnlyFrameRegistered
  /\ lastFrame.src = "X"
  /\ masters = <<"X">>
  /\ pin = LOW
  /\ ~buzzer_active
  /\ SinceStart > BUZZER_DURATION
  /\ now < buzzer_timer

\* From here nothing drives the output LOW again: no frame is left, no
\* callback is running, and loop() finds buzzer_active false at every poll.
OutputStuckHigh ==
  /\ framesLeft = 0
  /\ cpc = "idle"
  /\ lpc \in {"check", "delay"}
  /\ pin = HIGH
  /\ ~buzzer_active

\* C2: in every interleaving of the receive callbacks with loop(), once
\* frames have stopped arriving the output does not remain HIGH forever:
\* the receiver is never left with the output HIGH and nothing pending that
\* would drive it LOW.
C2_OutputEventuallyLow == ~OutputStuckHigh

\* C3: the output is not driven LOW and buzzer_active is not cleared while
\* less than BUZZER_DURATION ms have passed since the most recent
\* buzzer_timer = millis() of a receive callback.
C3_NoEarlyAbort ==
  [][((pin = HIGH /\ pin' = LOW) \/ (buzzer_active /\ ~buzzer_active'))
       => SinceStart >= BUZZER_DURATION]_vars

\* A start at t2 followed a start at t1 with t1 <= t2 < t1 + BUZZER_DURATION.
ReArmed ==
  /\ prevStartedAt >= 0
  /\ startedAt - prevStartedAt < BUZZER_DURATION

\* C4: when a frame re-arms the buzzer at t2 inside the window of a frame
\* at t1, the output stays HIGH until t2 + BUZZER_DURATION: loop() does not
\* drive it LOW at t1 + BUZZER_DURATION nor at any time before
\* t2 + BUZZER_DURATION, and a poll after t2 + BUZZER_DURATION does.
C4_IdempotentReArm ==
  [][ReArmed' =>
       /\ (pin = HIGH /\ pin' = LOW => SinceStart >= BUZZER_DURATION)
       /\ (lpc = "second" /\ lpc' # "second" /\ lorder = "millis" /\ lsnap = now
              /\ SinceStart > BUZZER_DURATION /\ cpc = "idle" => lpc' = "low")]_vars

\* The operands loop() has read, or is about to read, for its comparison.
PollMillis == IF lorder = "millis" THEN lsnap ELSE now
PollTimer == IF lorder = "timer" THEN lsnap ELSE buzzer_timer

\* loop() takes a step
LoopSteps == lpc' # lpc

\* C8: a poll of loop() that finds buzzer_active true and
\* millis() - buzzer_timer >= BUZZER_DURATION, equality included, drives
\* the output LOW and clears buzzer_active; a poll that finds buzzer_active
\* false or millis() - buzzer_timer < BUZZER_DURATION changes neither.
C8_Tick ==
  [][LoopSteps =>
       /\ (lpc = "check" => (pin' = pin /\ buzzer_active' = buzzer_active
                              /\ (~buzzer_active => lpc' = "delay")))
       /\ (lpc = "first" => (pin' = pin /\ buzzer_active' = buzzer_active))
       /\ (lpc = "second" => (/\ pin' = pin
                               /\ buzzer_active' = buzzer_active
                               /\ (USub(PollMillis, PollTimer) >= BUZZER_DURATION => lpc' = "low")
                               /\ (USub(PollMillis, PollTimer) < BUZZER_DURATION => lpc' = "delay")))
       /\ (lpc = "low" => (pin' = LOW /\ lpc' = "clear"))
       /\ (lpc = "clear" => ~buzzer_active')
       /\ (lpc = "delay" => (pin' = pin /\ buzzer_active' = buzzer_active))]_vars

\* loop() compares, no callback has touched buzzer_timer since the start,
\* and the counter has wrapped between the start and this poll.
PollAcrossWrap ==
  /\ lpc = "second"
  /\ startedAt >= 0
  /\ PollMillis = now
  /\ PollTimer = buzzer_timer
  /\ now < buzzer_timer

\* C9: when the counter wraps between the start and a poll, loop() drives
\* the output LOW at that poll exactly if BUZZER_DURATION ms or more have
\* passed since the start: not earlier, and at the poll where the elapsed
\* time reaches BUZZER_DURATION.
C9_Wraparound ==
  [][LoopSteps /\ PollAcrossWrap =>
       (lpc' = "low" <=> SinceStart >= BUZZER_DURATION)]_vars

\* loop() finishes the timeout check of one poll
PollEnds == lpc # "delay" /\ lpc' = "delay"

C5_Dedup ==
  /\ Cardinality(SeqToSet(masters)) = Len(masters)
  /\ (lastFrame.via = "register_new_master" /\ IsBroadcast(lastFrame.des) /\ lastFrame.ok
         => Cardinality({i \in 1..Len(masters) : masters[i] = lastFrame.src}) = 1)

\* Two frames from the same address, back to back: one entry.
C5_Witness ==
  /\ lastFrame.n = 2
  /\ lastFrame.via = "onReceive"
  /\ masters = <<lastFrame.src>>
  /\ lastFrame.at = 0

\* C6: a broadcast frame from an unknown source whose registration fails
\* still triggers the buzzer: when register_new_master has returned (and no
\* time has passed since) the output is HIGH, buzzer_active is true and
\* buzzer_timer is the current time.
C6_FailedRegistrationStillTriggers ==
  (/\ lastFrame.via = "register_new_master"
   /\ IsBroadcast(lastFrame.des)
   /\ ~lastFrame.ok
   /\ cpc = "idle"
   /\ uptime = lastFrame.at)
  => (pin = HIGH /\ buzzer_active /\ buzzer_timer = now)

\* A frame is handed to one of the two callbacks.
FrameArrives == lastFrame' # lastFrame

\* The three writes of a receive callback, in the order of the code.
CallbackWrites ==
  /\ (cpc = "high" /\ cpc' # cpc => pin' = HIGH /\ cpc' = "timer")
  /\ (cpc = "timer" /\ cpc' # cpc => buzzer_timer' = now /\ cpc' = "active")
  /\ (cpc = "active" /\ cpc' # cpc => buzzer_active' /\ cpc' = "idle")

\* C14: a frame from an unknown source whose destination is not the
\* broadcast address is ignored: register_new_master returns with masters,
\* the output level, buzzer_active and buzzer_timer unchanged.
C14_UnknownUnicastIgnored ==
  [][(FrameArrives /\ lastFrame'.src \notin SeqToSet(masters) /\ lastFrame'.des # BROADCAST_ADDR)
       => /\ lastFrame'.via = "register_new_master"
          /\ cpc' = "idle"
          /\ UNCHANGED <<masters, pin, buzzer_active, buzzer_timer>>]_vars

\* A directed frame from a stranger has been ignored while the buzzer of a
\* registered peer is on.
C14_Witness ==
  /\ lastFrame.n = 2
  /\ lastFrame.via = "register_new_master"
  /\ lastFrame.des = OWN_ADDR
  /\ Len(masters) = 1
  /\ lastFrame.src \notin SeqToSet(masters)
  /\ cpc = "idle"
  /\ pin = HIGH
  /\ buzzer_active

\* C15: a broadcast frame from a registered source is handed to onReceive,
\* which writes the output HIGH, buzzer_timer = millis() and buzzer_active =
\* true; masters is unchanged from the arrival of the frame to the return of
\* the callback.
C15_KnownBroadcastTriggers ==
  /\ [][(FrameArrives /\ lastFrame'.src \in SeqToSet(masters) /\ lastFrame'.des = BROADCAST_ADDR)
          => /\ lastFrame'.via = "onReceive"
             /\ cpc' = "high"
             /\ masters' = masters]_vars
  /\ [][(cpc # "idle" /\ lastFrame.via = "onReceive" /\ lastFrame.des = BROADCAST_ADDR)
          => CallbackWrites /\ masters' = masters]_vars

\* onReceive has returned from a broadcast frame of the one registered peer,
\* half a second into the window of the frame that registered it.
C15_Witness ==
  /\ lastFrame.n = 2
  /\ lastFrame.via = "onReceive"
  /\ lastFrame.des = BROADCAST_ADDR
  /\ lastFrame.at >= 500
  /\ masters = <<lastFrame.src>>
  /\ cpc = "idle"
  /\ pin = HIGH
  /\ buzzer_active
  /\ buzzer_timer = now
  /\ startedAt = lastFrame.at

C17_RegistryOnlyGrows ==
  [][\/ masters' = masters
     \/ /\ FrameArrives
        /\ masters' = Append(masters, lastFrame'.src)
        /\ lastFrame'.des = BROADCAST_ADDR
        /\ lastFrame'.src \notin SeqToSet(masters)]_vars

\* Two peers are registered.
C17_Witness ==
  /\ Len(masters) = 2
  /\ masters[1] # masters[2]
  /\ lastFrame.n = 2

\* C18: whenever no receive callback is running and loop() is not in its
\* deactivation branch, the output is HIGH if and only if buzzer_active is
\* true.
C18_OutputMatchesFlag ==
  (cpc = "idle" /\ lpc \notin {"low", "clear"}) => (pin = HIGH <=> buzzer_active)

\* C19: every frame of a registered peer is handed to onReceive and starts
\* the three writes of the callback, whatever its destination and payload;
\* for a directed frame the writes are those of a broadcast frame, and
\* masters is unchanged from the arrival to the return of the callback.
C19_DirectedFrameOfPeerTriggers ==
  /\ [][(FrameArrives /\ lastFrame'.src \in SeqToSet(masters))
          => /\ lastFrame'.via = "onReceive"
             /\ cpc' = "high"
             /\ UNCHANGED <<masters, pin, buzzer_active, buzzer_timer>>]_vars
  /\ [][(cpc # "idle" /\ lastFrame.via = "onReceive" /\ lastFrame.des # BROADCAST_ADDR)
          => CallbackWrites /\ masters' = masters]_vars

\* onReceive has returned from a directed frame of the one registered peer,
\* which re-armed the window of the frame that registered it.
C19_Witness ==
  /\ lastFrame.n = 2
  /\ lastFrame.via = "onReceive"
  /\ lastFrame.des = OWN_ADDR
  /\ lastFrame.at >= 500
  /\ masters = <<lastFrame.src>>
  /\ cpc = "idle"
  /\ pin = HIGH
  /\ buzzer_active
  /\ buzzer_timer = now
  /\ startedAt = lastFrame.at
  /\ ReArmed

(* ----------------------------- transmitter ---------------------------- *)

\* int currentButtonState = digitalRead(BUTTON_PIN)
TxRead ==
  /\ tpc = "read"
  /\ currentButtonState' = button
  /\ tpc' = "edge"
  /\ UNCHANGED <<rxvars, button, lastButtonState, msg_count, data, held, sent,
                 edges, sinceDetect, gapAtDetect, rawEdges>>

\* if (lastButtonState == HIGH && currentButtonState == LOW), then
\* snprintf(data, sizeof(data), "Button Pressed! #%lu", ++msg_count)
TxEdge ==
  /\ tpc = "edge"
  /\ IF FallingEdge(lastButtonState, currentButtonState)
       THEN /\ edges < MaxPresses
            /\ msg_count' = Increment(msg_count)
            /\ data' = Encode(msg_count')
            /\ edges' = edges + 1
            /\ gapAtDetect' = sinceDetect
            /\ sinceDetect' = 0
            /\ rawEdges' = 1
            /\ tpc' = "send"
       ELSE /\ tpc' = "save"
            /\ UNCHANGED <<msg_count, data, edges, gapAtDetect, sinceDetect, rawEdges>>
  /\ UNCHANGED <<rxvars, button, lastButtonState, currentButtonState, held, sent>>

\* broadcast_peer.send_message((uint8_t *)data, sizeof(data)): the radio
\* accepts the frame or not; either way loop() goes on to the delay.
TxSend(ok) ==
  /\ tpc = "send"
  /\ sent' = [n |-> sent.n + 1, payload |-> data, ok |-> ok]
  /\ held' = 0
  /\ tpc' = AfterSend(ok)
  /\ UNCHANGED <<rxvars, button, lastButtonState, currentButtonState, msg_count,
                 data, edges, sinceDetect, gapAtDetect, rawEdges>>

\* delay(250) returns
TxHoldDone ==
  /\ tpc = "hold"
  /\ DelayOver(held)
  /\ tpc' = "save"
  /\ UNCHANGED <<rxvars, button, lastButtonState, currentButtonState, msg_count,
                 data, held, sent, edges, sinceDetect, gapAtDetect, rawEdges>>

\* lastButtonState = currentButtonState
TxSave ==
  /\ tpc = "save"
  /\ lastButtonState' = currentButtonState
  /\ tpc' = "read"
  /\ UNCHANGED <<rxvars, button, currentButtonState, msg_count, data, held, sent,
                 edges, sinceDetect, gapAtDetect, rawEdges>>

\* The button is pressed or released, or bounces.
ButtonChange ==
  /\ button' = IF button = HIGH THEN LOW ELSE HIGH
  /\ rawEdges' = IF button = HIGH /\ rawEdges < MaxRawEdges THEN rawEdges + 1 ELSE rawEdges
  /\ UNCHANGED <<rxvars, lastButtonState, currentButtonState, msg_count, data, tpc,
                 held, sent, edges, sinceDetect, gapAtDetect>>

\* TxStep ms pass on the transmitter.
TxTick ==
  /\ sinceDetect < DEBOUNCE_MS \/ (tpc = "hold" /\ held < DEBOUNCE_MS)
  /\ sinceDetect' = Min(sinceDetect + TxStep, DEBOUNCE_MS)
  /\ held' = IF tpc = "hold" THEN Min(held + TxStep, DEBOUNCE_MS) ELSE held
  /\ UNCHANGED <<rxvars, button, lastButtonState, currentButtonState, msg_count,
                 data, tpc, sent, edges, gapAtDetect, rawEdges>>

TxNext ==
  \/ TxRead
  \/ TxEdge
  \/ \E ok \in BOOLEAN : TxSend(ok)
  \/ TxHoldDone
  \/ TxSave
  \/ ButtonChange
  \/ TxTick

TxSpecInit ==
  /\ TxInit
  /\ now = 0
  /\ uptime = 0
  /\ drift = 0
  /\ pin = LOW
  /\ buzzer_timer = 0
  /\ buzzer_active = FALSE
  /\ masters = <<>>
  /\ lpc = "check"
  /\ lorder = "none"
  /\ lsnap = 0
  /\ cpc = "idle"
  /\ framesLeft = 0
  /\ startedAt = -1
  /\ prevStartedAt = -1
  /\ lastFrame = NoFrame

TxSpec == TxSpecInit /\ [][TxNext]_vars

(* ---------------------- transmitter: properties ----------------------- *)

\* C7: after loop() has detected a press and attempted its message, it
\* detects no further press, and so sends no second message, until
\* 250 ms have passed since that detection, however the raw level moves in
\* between; every detected press yields exactly one send attempt.
C7_Debounce ==
  /\ [][edges' # edges /\ edges >= 1 => sinceDetect >= DEBOUNCE_MS]_vars
  /\ [][sent' # sent => (sent.n' = sent.n + 1 /\ sent.n' = edges
                          /\ (sent.n >= 1 => gapAtDetect >= DEBOUNCE_MS))]_vars
  /\ [](sent.n <= edges /\ edges <= sent.n + 1)
  /\ [](sinceDetect < DEBOUNCE_MS => sent.n >= edges - 1)

\* Two raw falling edges, the second 50 ms after the detected one, and one
\* message.
C7_Witness ==
  /\ rawEdges = 2
  /\ button = LOW
  /\ sinceDetect = 50
  /\ tpc = "hold"
  /\ sent.n = 1
  /\ edges = 1

\* The transmitter's loop() takes a step
TxLoopSteps == tpc' # tpc

\* C12: loop() attempts a send exactly for the sample pairs
\* (lastButtonState, currentButtonState) = (HIGH, LOW): one send for each
\* such pair, none for a release, a held button or an idle button; the
\* number of send attempts equals the number of sampled HIGH->LOW pairs.
C12_EdgeTriggered ==
  /\ [][TxLoopSteps /\ tpc = "edge" =>
          (tpc' = "send" <=> (lastButtonState = HIGH /\ currentButtonState = LOW))]_vars
  /\ [][TxLoopSteps /\ tpc = "edge" /\ tpc' # "send" =>
          (tpc' = "save" /\ sent' = sent)]_vars
  /\ [][sent' # sent =>
          /\ tpc = "send"
          /\ sent.n' = sent.n + 1
          /\ lastButtonState = HIGH
          /\ currentButtonState = LOW]_vars
  /\ [][TxLoopSteps /\ tpc = "send" => sent.n' = sent.n + 1]_vars
  /\ [](sent.n = IF tpc = "send" THEN edges - 1 ELSE edges)

\* After one press and its message, loop() has sampled the release
\* (LOW, HIGH) and is past the edge test with no further send.
C12_Witness ==
  /\ tpc = "save"
  /\ lastButtonState = LOW
  /\ currentButtonState = HIGH
  /\ sent.n = 1
  /\ edges = 1

\* C13: a send attempt that fails is followed by the same steps as one
\* that succeeds: loop() enters delay(250) from its start, then assigns
\* lastButtonState = currentButtonState; msg_count and the buffer are left
\* alone, the failed message is not sent again, and the next sampled
\* HIGH->LOW pair leads to a new attempt.
C13_FailedSendKeepsStateMachine ==
  /\ [][sent' # sent =>
          /\ tpc' = "hold"
          /\ held' = 0
          /\ sent.n' = edges
          /\ UNCHANGED <<lastButtonState, currentButtonState, msg_count, data, edges>>]_vars
  /\ [][TxLoopSteps /\ tpc = "hold" => (held >= DEBOUNCE_MS /\ tpc' = "save")]_vars
  /\ [][TxLoopSteps /\ tpc = "save" =>
          (lastButtonState' = currentButtonState /\ tpc' = "read")]_vars
  /\ [][TxLoopSteps /\ tpc = "edge" /\ ~sent.ok
          /\ lastButtonState = HIGH /\ currentButtonState = LOW => tpc' = "send"]_vars

\* A send failed, the hold ran its 250 ms, the button was released and
\* pressed again, and loop() is about to make the next attempt.
C13_Witness ==
  /\ sent.n = 1
  /\ ~sent.ok
  /\ tpc = "send"
  /\ edges = 2
  /\ gapAtDetect >= DEBOUNCE_MS

\* C10: msg_count is 0 before the first press, goes up by exactly 1 (mod
\* 2^CountBits) on every detected HIGH->LOW transition and changes in no
\* other way, the n-th send attempt carries n mod 2^CountBits, and the
\* counter wraps to 0 after 2^CountBits - 1.
C10_SequenceCounter ==
  /\ [](msg_count = edges % CountMod)
  /\ [](sent.n >= 1 => sent.payload = [text |-> "Button Pressed! #", seq |-> sent.n % CountMod])
  /\ [][msg_count' # msg_count =>
          /\ edges' = edges + 1
          /\ msg_count' = IF msg_count = CountMod - 1 THEN 0 ELSE msg_count + 1
          /\ data'.seq = msg_count']_vars

\* The counter has wrapped: send attempt number 2^CountBits carried 0.
C10_Witness ==
  /\ edges = CountMod
  /\ msg_count = 0
  /\ sent.n = CountMod
  /\ sent.payload.seq = 0

====
